---- MODULE Spec2Model ----
(***************************************************************************)
(* Force Monitor backend: the organization registry (encrypted credential *)
(* custody), the fetch-with-refresh protocol, the hourly collection sweep  *)
(* and the scheduler that drives it.                                       *)
(*                                                                         *)
(* Every await of the TypeScript code is a suspension point, so every      *)
(* async function is cut into steps at its awaits; a step is one action.   *)
(* An in-flight async execution (an HTTP request being served, a sweep) is  *)
(* a task: a slot of `tasks` holding its position (pc) and its locals.     *)
(***************************************************************************)
EXTENDS Integers, Sequences, FiniteSets, TLC

\* ------------------------------------------------------------------ bounds
MaxUsers   == 2      \* authenticated users
MaxExt     == 1      \* external (Salesforce) organization ids
MaxOrgs    == 2      \* UserOrganization rows ever inserted by createOrganization
MaxTasks   == 2      \* async executions over a behaviour
MaxTok     == 3      \* secrets the remote authorization server ever issues
MaxPayload == 2      \* distinct limits payloads the remote reports
MaxNow     == 1      \* clock ticks
MaxSeed    == 3      \* rows of the seeded table of the sweep specification
MaxJobs    == 2      \* hourly cron jobs ever registered
MaxAudit   == 1      \* seeded rows the owners' requests of SpecAudit address
TicksPerDay == 2     \* clock ticks in a UTC day
MaxSnap    == 3      \* snapshots in the seeded history of the query specification
MaxTrendPayload == 3 \* distinct limits payloads in that history
MaxFlip    == 2      \* distinct alterations of one part of an envelope

Users    == 1..MaxUsers
Exts     == 1..MaxExt
Pairs    == Users \X Exts
\* Seeded rows connect external organizations MaxExt+1, MaxExt+2, ...
AllPairs == Users \X (1..(MaxExt + MaxSeed))
TaskIds  == 1..MaxTasks
Payloads == 1..MaxPayload
Names    == {"acme", "globex"}
Envs     == {"production", "sandbox"}
Scheds   == {"server", "controller"}

\* --------------------------------------------------------- CredentialVault
\* A secret is a number in 1..TokMod-1; 0 is the falsy value (undefined, "").
TokMod == MaxTok + 2 * MaxSeed + 2
\* crypto.randomBytes(16): the initialization vectors encrypt may draw.
IVs == {0, 1}
\* The key the cipher is given: ENCRYPTION_KEY.slice(0, 32).
KeyByte == 5
\* The length the cipher demands of its key (aes-256: 32 bytes), which is
\* also where line 29 cuts the configured key, and the length of the
\* fallback of line 23.
KeyLength == 32
FallbackKeyLen == 33

\* The AES-GCM keystream for an iv, and the authentication tag of (iv, ct).
Pad(iv) == (KeyByte + 3 * iv + 1) % TokMod
Mac(iv, ct) == (KeyByte + 7 * iv + 2 * ct + 1) % (2 * TokMod)

NoEnv == [iv |-> -1, tag |-> 0, ct |-> 0]          \* a null column
DecryptFailed == -1                                  \* 'Failed to decrypt data'

encryptOtherEncoding(text, iv) ==
  LET ct == (text + Pad(iv) + 1) % TokMod
  IN  [iv |-> iv, tag |-> Mac(iv, ct), ct |-> ct]
encrypt(text, iv) ==
  LET ct == (text + Pad(iv)) % TokMod
  IN  [iv |-> iv, tag |-> Mac(iv, ct), ct |-> ct]

\* An envelope is the string iv:tag:ct, a record of its parts; decrypt
\* rejects one that does not split into exactly these three (lines 46-49),
\* and decipher.final() rejects one whose tag does not verify.
EnvelopeParts == {"iv", "tag", "ct"}
decryptUnverified(env) ==
  IF DOMAIN env # EnvelopeParts \/ env.iv \notin IVs
    THEN DecryptFailed
    ELSE (env.ct - Pad(env.iv) + TokMod) % TokMod
decrypt(env) ==
  IF DOMAIN env # EnvelopeParts
    THEN DecryptFailed
  ELSE IF env.iv \notin IVs \/ env.tag # Mac(env.iv, env.ct)
    THEN DecryptFailed
    ELSE (env.ct - Pad(env.iv) + TokMod) % TokMod


\* ------------------------------------------------------------------- state
VARIABLES
  orgs,      \* the UserOrganization table: a set of rows
  nextId,    \* ids the table has handed out so far
  history,   \* the OrgLimitHistory table: rows in insertion order
  now,       \* the clock read by new Date()
  remote,    \* the remote system, per (user, external org) grant
  tokCtr,    \* secrets the remote has issued so far
  sched,     \* the SchedulerService instances
  tasks,     \* the async executions and the requests already answered
  configKey  \* process.env.ENCRYPTION_KEY: its length, 0 when it is not set

vars == <<orgs, nextId, history, now, remote, tokCtr, sched, tasks, configKey>>

\* line 23: process.env.ENCRYPTION_KEY || 'fallback-32-character-key-for-dev'
ENCRYPTION_KEY ==
  IF configKey = 0 THEN [len |-> FallbackKeyLen, from |-> "fallback"]
                   ELSE [len |-> configKey, from |-> "env"]
\* lines 29, 55: Buffer.from(this.ENCRYPTION_KEY.slice(0, 32), 'utf8')
CipherKey ==
  [ENCRYPTION_KEY EXCEPT !.len = IF @ > KeyLength THEN KeyLength ELSE @]
\* createCipheriv / createDecipheriv throw on a key of another length.
CipherAccepts == CipherKey.len = KeyLength
EncryptError == "Failed to encrypt data"

\* -------------------------------------------------------- table operations
NoRow == [id |-> 0, userId |-> 0, orgId |-> 0, name |-> "", instanceUrl |-> 0,
          environment |-> "", accessToken |-> NoEnv, refreshToken |-> NoEnv,
          isActive |-> FALSE, lastSync |-> 0]

AllFields == {"id", "userId", "orgId", "name", "instanceUrl", "environment",
              "accessToken", "refreshToken", "isActive", "lastSync"}

HasId(id) == \E r \in orgs : r.id = id
RowById(id) == IF HasId(id) THEN CHOOSE r \in orgs : r.id = id ELSE NoRow

\* prisma.userOrganization.findFirst({ where: { id, userId } })
FindFirstAnyOwner(id, userId) == RowById(id)
FindFirst(id, userId) ==
  IF \E r \in orgs : r.id = id /\ r.userId = userId
    THEN CHOOSE r \in orgs : r.id = id /\ r.userId = userId
    ELSE NoRow

\* prisma.userOrganization.findUnique({ where: { userId_orgId } })
FindUniqueNever(userId, orgId) == NoRow
FindUnique(userId, orgId) ==
  IF \E r \in orgs : r.userId = userId /\ r.orgId = orgId
    THEN CHOOSE r \in orgs : r.userId = userId /\ r.orgId = orgId
    ELSE NoRow

\* The unique index behind the compound key userId_orgId.
UniqueViolation(userId, orgId) ==
  \E r \in orgs : r.userId = userId /\ r.orgId = orgId

Replace(old, new) == (orgs \ {old}) \cup {new}

PrismaNotFound == "Record to update not found"
FetchFailed    == "Failed to fetch org limits"
RefreshFailed  == "Failed to refresh organization token"
NoRefresh      == "Organization not found or no refresh token available"
OrgNotFound    == "Organization not found"
DecryptError   == "Failed to decrypt data"
UniqueError    == "Unique constraint failed"

\* error.message?.includes('token') || error.message?.includes('unauthorized')
IsAuthErrorAny(msg) == TRUE
IsAuthError(msg) == msg \in {RefreshFailed, NoRefresh}


\* ------------------------------------------------------------------- tasks
NoOrgView == [id |-> 0, userId |-> 0, orgId |-> 0, instanceUrl |-> 0,
              environment |-> "", access |-> 0, refresh |-> 0]
NoInput   == [userId |-> 0, orgId |-> 0, name |-> "", accessToken |-> 0,
              refreshToken |-> 0, instanceUrl |-> 0, environment |-> ""]
NoNew     == [access_token |-> 0, refresh_token |-> 0, instance_url |-> 0]

\* The result of getTrendAnalysis; growth rates are numbers n/d.
NoTrend == [apiTrend |-> "", dataTrend |-> "", fileTrend |-> "",
            growthRates |-> [api |-> [n |-> 0, d |-> 0],
                             data |-> [n |-> 0, d |-> 0],
                             file |-> [n |-> 0, d |-> 0]]]

\* kind/pc/locals of an async execution.  first, nFetch, nRefresh, rfOut,
\* hadRefresh, sawPair and log only record what the execution did (history
\* variables); status, fields and row are the response of a GET.  days, gran,
\* points and trend belong to the history queries; data, dayLen, hourLen and
\* hourDays record the rows and the series a query saw.  text, env and plain
\* are the argument and results of a direct use of the vault; env0 records
\* the envelope encrypt returned; isRunning is the body of a status response;
\* sent records the access secrets the invocation's fetch calls carried.
IdleTask ==
  [kind |-> "idle", pc |-> "idle", user |-> 0, id |-> 0, org |-> NoOrgView,
   err |-> "", limits |-> 0, newTokens |-> NoNew, inner |-> FALSE,
   result |-> "none", error |-> "", in |-> NoInput, existing |-> 0,
   list |-> <<>>, idx |-> 0, src |-> "none", raised |-> FALSE,
   first |-> "none", nFetch |-> 0, nRefresh |-> 0, rfOut |-> "none",
   hadRefresh |-> FALSE, log |-> <<>>,
   status |-> 0, fields |-> {}, row |-> NoRow, sawPair |-> FALSE,
   days |-> 0, gran |-> "", data |-> <<>>, points |-> <<>>, trend |-> NoTrend,
   dayLen |-> -1, hourLen |-> -1, hourDays |-> 0,
   text |-> 0, env |-> NoEnv, env0 |-> NoEnv, plain |-> DecryptFailed,
   isRunning |-> FALSE, sent |-> <<>>]

\* What one finished invocation of getOrgLimitsWithRetry did.
Summary(tk, ok, msg) ==
  [id |-> tk.id, first |-> tk.first, nFetch |-> tk.nFetch,
   nRefresh |-> tk.nRefresh, rfOut |-> tk.rfOut, hadRefresh |-> tk.hadRefresh,
   ok |-> ok, payload |-> IF ok THEN tk.limits ELSE 0, error |-> msg,
   sent |-> tk.sent]

\* The execution ends; its locals go out of scope.
Finish(tk, result, msg) ==
  [IdleTask EXCEPT !.kind = tk.kind, !.pc = "done", !.user = tk.user,
                   !.id = tk.id, !.src = tk.src, !.list = tk.list,
                   !.existing = tk.existing, !.sawPair = tk.sawPair,
                   !.nRefresh = tk.nRefresh,
                   !.rfOut = tk.rfOut, !.log = tk.log,
                   !.result = result, !.error = msg]

\* collectHistoricalData's loop: collectDataForOrganization(list[i]) begins
\* with getOrgLimitsWithRetry(organization.id, organization.userId).
BeginOrg(tk, i) ==
  [tk EXCEPT !.idx = i, !.id = tk.list[i].id, !.user = tk.list[i].userId,
             !.pc = "L_get", !.org = NoOrgView, !.err = "", !.limits = 0,
             !.newTokens = NoNew, !.inner = FALSE, !.first = "none",
             !.nFetch = 0, !.nRefresh = 0, !.rfOut = "none",
             !.hadRefresh = FALSE, !.sent = <<>>]

\* The loop's catch (lines 343-345): log, go on with the next organization.
ThisOrgAgain(tk) == BeginOrg(tk, tk.idx)
NextOrg(tk) ==
  IF tk.idx < Len(tk.list) THEN BeginOrg(tk, tk.idx + 1)
                           ELSE Finish(tk, "ok", "")
\* An error of collectDataForOrganization reaching the loop: caught, logged.
OrgFailedEscapes(tk) == [Finish(tk, "error", tk.err) EXCEPT !.raised = TRUE]
OrgFailed(tk) == NextOrg(tk)

\* getOrgLimitsWithRetry throws msg to its caller.
LThrowAgain(tk, msg) == [tk EXCEPT !.err = msg, !.pc = "L_get"]
LThrow(tk, msg) ==
  LET done == [tk EXCEPT !.log = Append(tk.log, Summary(tk, FALSE, msg)),
                         !.err = msg]
  IN  IF tk.kind = "sweep" THEN OrgFailed(done) ELSE Finish(done, "error", msg)

\* getOrgLimitsWithRetry returns limits to its caller.
LReturn(tk) ==
  LET done == [tk EXCEPT !.log = Append(tk.log, Summary(tk, TRUE, ""))]
  IN  IF tk.kind = "sweep" THEN [done EXCEPT !.pc = "S_store"]
                           ELSE Finish(done, "ok", "")

\* refreshOrganizationToken throws msg: inside getOrgLimitsWithRetry the
\* inner catch (305-307) logs it and line 310 rethrows the first error.
RThrow(tk, msg) ==
  IF tk.inner THEN LThrow([tk EXCEPT !.rfOut = "failed"], tk.err)
              ELSE Finish([tk EXCEPT !.rfOut = "failed"], "error", msg)

RReturn(tk) ==
  IF tk.inner THEN [tk EXCEPT !.rfOut = "ok", !.pc = "L_reget"]
              ELSE Finish([tk EXCEPT !.rfOut = "ok"], "ok", "")

getOrganizationWithTokensLenient(id, userId) ==
  LET r == FindFirst(id, userId)
  IN  IF r = NoRow THEN [status |-> "null", view |-> NoOrgView]
      ELSE [status |-> "ok",
            view |-> [id |-> r.id, userId |-> r.userId, orgId |-> r.orgId,
                      instanceUrl |-> r.instanceUrl,
                      environment |-> r.environment,
                      access |-> 0, refresh |-> 0]]
getOrganizationWithTokens(id, userId) ==
  LET r == FindFirst(id, userId)
      a == decrypt(r.accessToken)
      f == IF r.refreshToken # NoEnv THEN decrypt(r.refreshToken) ELSE 0
  IN  IF r = NoRow THEN [status |-> "null", view |-> NoOrgView]
      ELSE IF a = DecryptFailed \/ f = DecryptFailed
        THEN [status |-> "throw", view |-> NoOrgView]
      ELSE [status |-> "ok",
            view |-> [id |-> r.id, userId |-> r.userId, orgId |-> r.orgId,
                      instanceUrl |-> r.instanceUrl,
                      environment |-> r.environment,
                      access |-> a, refresh |-> f]]

Grant(view) == remote[<<view.userId, view.orgId>>]

\* The answer of GET {instanceUrl}/services/data/v62.0/limits.
FetchOutcome(view) ==
  IF ~Grant(view).up THEN "net"
  ELSE IF view.access = 0 \/ view.access # Grant(view).access THEN "auth"
  ELSE "ok"

\* The answer of POST /services/oauth2/token, grant_type=refresh_token.
RefreshAccepted(view) ==
  Grant(view).up /\ view.refresh # 0 /\ view.refresh = Grant(view).refresh

\* The promise of an axios call settles when the remote answers or the
\* connection fails; the calls pass no timeout option (part_013:376-388,
\* 392-400), and axios' default is none.
Settles(view) == ~Grant(view).silent

\* The k-th secret the remote issues next; the seeded rows hold 1..2*MaxSeed.
NewSecret(k) == 2 * MaxSeed + tokCtr + k

SetTask(t, rec) == tasks' = [tasks EXCEPT ![t] = rec]

\* --------------------------------------- getOrgLimitsWithRetry (267-312)
\* lines 268, 242, 292: await getOrganizationWithTokens(orgId, userId)
StepGetWithTokens(t) ==
  LET tk == tasks[t]
      got == getOrganizationWithTokens(tk.id, tk.user)
  IN  /\ tk.pc \in {"L_get", "R_get", "L_reget"}
      /\ SetTask(t,
           CASE tk.pc = "L_get" ->
                  IF got.status = "throw" THEN LThrow(tk, DecryptError)
                  ELSE IF got.status = "null" THEN LThrow(tk, OrgNotFound)
                  ELSE [tk EXCEPT !.org = got.view, !.pc = "L_fetch1",
                                  !.hadRefresh = (got.view.refresh # 0)]
             [] tk.pc = "R_get" ->
                  IF got.status = "throw" THEN RThrow(tk, DecryptError)
                  ELSE IF got.status = "null" \/ got.view.refresh = 0
                    THEN RThrow(tk, NoRefresh)
                  ELSE [tk EXCEPT !.org = got.view, !.pc = "R_call"]
             [] OTHER ->
                  IF got.status # "ok" THEN LThrow(tk, tk.err)
                  ELSE [tk EXCEPT !.org = got.view, !.pc = "L_fetch2"])
      /\ UNCHANGED <<orgs, nextId, history, now, remote, tokCtr, sched, configKey>>

\* lines 276, 295: await SalesforceService.getOrgLimits(accessToken, url);
\* any failure of the call is rethrown as 'Failed to fetch org limits'.
StepFetch(t) ==
  LET tk  == tasks[t]
      out == FetchOutcome(tk.org)
      cnt == [tk EXCEPT !.nFetch = tk.nFetch + 1,
                        !.sent = Append(tk.sent, tk.org.access),
                        !.first = IF tk.pc = "L_fetch1" THEN out ELSE tk.first]
  IN  /\ tk.pc \in {"L_fetch1", "L_fetch2"}
      /\ Settles(tk.org)
      /\ SetTask(t,
           IF out = "ok"
             THEN [cnt EXCEPT !.limits = Grant(tk.org).limits,
                              !.pc = IF tk.pc = "L_fetch1" THEN "L_sync1"
                                                           ELSE "L_sync2"]
           ELSE IF tk.pc = "L_fetch1"
             THEN IF IsAuthError(FetchFailed)
                    THEN [cnt EXCEPT !.err = FetchFailed, !.inner = TRUE,
                                     !.pc = "R_get"]
                    ELSE LThrow(cnt, FetchFailed)
           ELSE LThrow(cnt, tk.err))
      /\ UNCHANGED <<orgs, nextId, history, now, remote, tokCtr, sched, configKey>>

\* lines 279-282, 298-301: update({ where: { id }, data: { lastSync } })
StepTouchLastSync(t) ==
  LET tk == tasks[t]
      r  == RowById(tk.id)
  IN  /\ tk.pc \in {"L_sync1", "L_sync2"}
      /\ IF r = NoRow
           THEN /\ SetTask(t,
                     IF tk.pc = "L_sync1"
                       THEN IF IsAuthError(PrismaNotFound)
                              THEN [tk EXCEPT !.err = PrismaNotFound,
                                              !.inner = TRUE, !.pc = "R_get"]
                              ELSE LThrow(tk, PrismaNotFound)
                       ELSE LThrow(tk, tk.err))
                /\ UNCHANGED orgs
           ELSE /\ orgs' = Replace(r, [r EXCEPT !.lastSync = now])
                /\ SetTask(t, LReturn(tk))
      /\ UNCHANGED <<nextId, history, now, remote, tokCtr, sched, configKey>>


\* ------------------------------------- refreshOrganizationToken (241-265)
\* line 250: await SalesforceService.refreshAccessToken(refreshToken, env).
\* The remote issues a new access secret and may rotate the refresh secret.
StepRefreshCall(t) ==
  LET tk == tasks[t]
      p  == <<tk.org.userId, tk.org.orgId>>
      cnt == [tk EXCEPT !.nRefresh = tk.nRefresh + 1]
  IN  /\ tk.pc = "R_call"
      /\ Settles(tk.org)
      /\ \/ /\ RefreshAccepted(tk.org)
            /\ \E rotate \in BOOLEAN :
                 LET a == NewSecret(1)
                     r == IF rotate THEN NewSecret(2) ELSE 0
                     n == IF rotate THEN 2 ELSE 1
                 IN  /\ tokCtr + n <= MaxTok
                     /\ tokCtr' = tokCtr + n
                     /\ remote' = [remote EXCEPT ![p].access = a,
                                     ![p].refresh = IF rotate THEN r ELSE @]
                     /\ SetTask(t, [cnt EXCEPT !.pc = "R_persist",
                            !.newTokens = [access_token |-> a,
                                           refresh_token |-> r,
                                           instance_url |-> Grant(tk.org).url]])
         \/ /\ ~RefreshAccepted(tk.org)
            /\ SetTask(t, RThrow(cnt, RefreshFailed))
            /\ UNCHANGED <<remote, tokCtr>>
      /\ UNCHANGED <<orgs, nextId, history, now, sched, configKey>>

\* updateOrganizationTokens (198-228): re-encrypt, overwrite, bump lastSync.
updateOrganizationTokens(r, accessToken, refreshToken, instanceUrl, iv1, iv2) ==
  [r EXCEPT !.accessToken = encrypt(accessToken, iv1),
            !.refreshToken = IF refreshToken # 0 THEN encrypt(refreshToken, iv2)
                                                 ELSE NoEnv,
            !.instanceUrl = instanceUrl,
            !.lastSync = now]

Or(a, b) == IF a # 0 THEN a ELSE b        \* JavaScript a || b

\* line 256 (refresh) and line 84 (createOrganization on an existing pair):
\* await this.updateOrganizationTokens(id, {...}).
StepUpdateTokens(t) ==
  LET tk == tasks[t]
      isR == tk.pc = "R_persist"
      r  == RowById(IF isR THEN tk.id ELSE tk.existing)
      a  == IF isR THEN tk.newTokens.access_token ELSE tk.in.accessToken
      f  == IF isR THEN Or(tk.newTokens.refresh_token, tk.org.refresh)
                   ELSE tk.in.refreshToken
      u  == IF isR THEN Or(tk.newTokens.instance_url, tk.org.instanceUrl)
                   ELSE tk.in.instanceUrl
  IN  /\ tk.pc \in {"R_persist", "C_update"}
      /\ IF r = NoRow
           THEN /\ SetTask(t, IF isR THEN RThrow(tk, RefreshFailed)
                                     ELSE Finish(tk, "error", PrismaNotFound))
                /\ UNCHANGED orgs
           ELSE /\ \E iv1 \in IVs, iv2 \in IVs :
                     orgs' = Replace(r, updateOrganizationTokens(r, a, f, u, iv1, iv2))
                /\ SetTask(t, IF isR THEN RReturn(tk) ELSE Finish(tk, "ok", ""))
      /\ UNCHANGED <<nextId, history, now, remote, tokCtr, sched, configKey>>

\* ------------------------------------------- createOrganization (69-119)
\* lines 73-80: await findUnique({ where: { userId_orgId } })
StepCreateFind(t) ==
  LET tk == tasks[t]
      ex == FindUnique(tk.in.userId, tk.in.orgId)
      saw == [tk EXCEPT !.sawPair = UniqueViolation(tk.in.userId, tk.in.orgId)]
  IN  /\ tk.pc = "C_find"
      /\ SetTask(t, IF ex # NoRow
                      THEN [saw EXCEPT !.existing = ex.id, !.pc = "C_update"]
                      ELSE [saw EXCEPT !.pc = "C_insert"])
      /\ UNCHANGED <<orgs, nextId, history, now, remote, tokCtr, sched, configKey>>

\* lines 92-116: encrypt, await prisma.userOrganization.create(...)
StepCreateInsert(t) ==
  LET tk == tasks[t]
  IN  /\ tk.pc = "C_insert"
      /\ IF UniqueViolation(tk.in.userId, tk.in.orgId)
           THEN /\ SetTask(t, Finish(tk, "error", UniqueError))
                /\ UNCHANGED <<orgs, nextId, configKey>>
           ELSE /\ nextId < MaxOrgs
                /\ nextId' = nextId + 1
                /\ \E iv1 \in IVs, iv2 \in IVs :
                     orgs' = orgs \cup
                       {[id |-> nextId + 1, userId |-> tk.in.userId,
                         orgId |-> tk.in.orgId, name |-> tk.in.name,
                         instanceUrl |-> tk.in.instanceUrl,
                         environment |-> tk.in.environment,
                         accessToken |-> encrypt(tk.in.accessToken, iv1),
                         refreshToken |->
                           IF tk.in.refreshToken # 0
                             THEN encrypt(tk.in.refreshToken, iv2) ELSE NoEnv,
                         isActive |-> TRUE, lastSync |-> now]}
                /\ SetTask(t, Finish([tk EXCEPT !.id = nextId + 1], "ok", ""))
      /\ UNCHANGED <<history, now, remote, tokCtr, sched, configKey>>


Idle(t) == tasks[t].kind = "idle"

\* ---------------------------------------------------------- vault callers
\* OrganizationService.encrypt(text) (26-42), with its try/catch.
Encrypt(t, text) ==
  LET tk == [IdleTask EXCEPT !.kind = "vault", !.text = text]
  IN  /\ Idle(t)
      /\ \E iv \in IVs :
           SetTask(t, IF CipherAccepts
                        THEN [tk EXCEPT !.pc = "V_held",
                                        !.env = encrypt(text, iv),
                                        !.env0 = encrypt(text, iv)]
                        ELSE [Finish(tk, "error", EncryptError)
                                EXCEPT !.text = text])
      /\ UNCHANGED <<orgs, nextId, history, now, remote, tokCtr, sched, configKey>>

\* The stored envelope is altered outside the program: its ciphertext or
\* its tag is changed, or a part is cut off or added.
Tamper(t, how, d) ==
  LET tk == tasks[t]
      e  == tk.env
  IN  /\ tk.pc = "V_held" /\ e = tk.env0
      /\ SetTask(t, [tk EXCEPT !.env =
           CASE how = "ct"   -> [e EXCEPT !.ct = (@ + d) % TokMod]
             [] how = "tag"  -> [e EXCEPT !.tag = (@ + d) % (2 * TokMod)]
             [] how = "cut"  -> [iv |-> e.iv, tag |-> e.tag]
             [] OTHER        -> [iv |-> e.iv, tag |-> e.tag, ct |-> e.ct,
                                 more |-> d]])
      /\ UNCHANGED <<orgs, nextId, history, now, remote, tokCtr, sched, configKey>>

\* OrganizationService.decrypt(encryptedText) (44-67), with its try/catch.
Decrypt(t) ==
  LET tk == tasks[t]
      p  == IF CipherAccepts THEN decrypt(tk.env) ELSE DecryptFailed
  IN  /\ tk.pc = "V_held"
      /\ SetTask(t, [(IF p = DecryptFailed THEN Finish(tk, "error", DecryptError)
                                           ELSE Finish(tk, "ok", ""))
                       EXCEPT !.text = tk.text, !.env = tk.env,
                              !.env0 = tk.env0, !.plain = p])
      /\ UNCHANGED <<orgs, nextId, history, now, remote, tokCtr, sched, configKey>>

\* ------------------------------------------------- OrganizationController

\* connectOrganization (70-121): exchangeCodeForToken, then createOrganization.
\* The code exchange makes the remote issue a new grant for (user, org).
ConnectOrganization(t, u, e, name, env, withRefresh) ==
  LET a == NewSecret(1)
      r == IF withRefresh THEN NewSecret(2) ELSE 0
      n == IF withRefresh THEN 2 ELSE 1
  IN  /\ Idle(t)
      /\ tokCtr + n <= MaxTok
      /\ tokCtr' = tokCtr + n
      /\ remote' = [remote EXCEPT ![<<u, e>>].access = a,
                                  ![<<u, e>>].refresh = r]
      /\ SetTask(t, [IdleTask EXCEPT !.kind = "create", !.pc = "C_find",
                       !.user = u,
                       !.in = [userId |-> u, orgId |-> e, name |-> name,
                               accessToken |-> a, refreshToken |-> r,
                               instanceUrl |-> remote[<<u, e>>].url,
                               environment |-> env]])
      /\ UNCHANGED <<orgs, nextId, history, now, sched, configKey>>

\* getOrganizationLimits (210-231)
GetOrganizationLimits(t, u, id) ==
  /\ Idle(t)
  /\ SetTask(t, [IdleTask EXCEPT !.kind = "limits", !.pc = "L_get",
                                 !.user = u, !.id = id])
  /\ UNCHANGED <<orgs, nextId, history, now, remote, tokCtr, sched, configKey>>

\* refreshOrganizationToken (233-257)
RefreshOrganizationToken(t, u, id) ==
  /\ Idle(t)
  /\ SetTask(t, [IdleTask EXCEPT !.kind = "refresh", !.pc = "R_get",
                                 !.user = u, !.id = id])
  /\ UNCHANGED <<orgs, nextId, history, now, remote, tokCtr, sched, configKey>>

\* getOrganizationById (140-149): findFirst without a select list.
getOrganizationById(id, userId) ==
  [fields |-> AllFields, row |-> FindFirst(id, userId)]

\* getOrganization (140-160): GET /api/organizations/:orgId; the response
\* body is res.json({ organization }).
GetOrganization(t, u, id) ==
  LET got == getOrganizationById(id, u)
      tk  == [IdleTask EXCEPT !.kind = "get", !.user = u, !.id = id]
  IN  /\ Idle(t)
      /\ SetTask(t, IF got.row = NoRow
                      THEN [Finish(tk, "error", OrgNotFound) EXCEPT !.status = 404]
                      ELSE [Finish(tk, "ok", "") EXCEPT !.status = 200,
                              !.fields = got.fields, !.row = got.row])
      /\ UNCHANGED <<orgs, nextId, history, now, remote, tokCtr, sched, configKey>>

\* updateOrganization (162-190 / 174-196): PUT /api/organizations/:orgId
UpdateOrganizationResetting(u, id, name, active) ==
  LET r == FindFirst(id, u)
      n == [r EXCEPT !.name = IF name # "" THEN name ELSE @,
                     !.isActive = IF active = "keep" THEN @
                                  ELSE (active = "true"),
                     !.refreshToken = NoEnv]
  IN  /\ orgs' = IF r = NoRow THEN orgs ELSE Replace(r, n)
      /\ UNCHANGED <<nextId, history, now, remote, tokCtr, sched, tasks, configKey>>
UpdateOrganization(u, id, name, active) ==
  LET r == FindFirst(id, u)
      n == [r EXCEPT !.name = IF name # "" THEN name ELSE @,
                     !.isActive = IF active = "keep" THEN @
                                  ELSE (active = "true")]
  IN  /\ orgs' = IF r = NoRow THEN orgs ELSE Replace(r, n)
      /\ UNCHANGED <<nextId, history, now, remote, tokCtr, sched, tasks, configKey>>

\* The referential action of OrgLimitHistory.organizationId on delete.
OnDeleteHistory(h, id) == h

\* deleteOrganization (192-208 / 230-239): DELETE /api/organizations/:orgId
DeleteOrganization(u, id) ==
  LET r == FindFirst(id, u)
  IN  /\ orgs' = orgs \ {r}
      /\ history' = IF r = NoRow THEN history ELSE OnDeleteHistory(history, id)
      /\ UNCHANGED <<nextId, now, remote, tokCtr, sched, tasks, configKey>>

\* ------------------------------------------------------------------ numbers
\* A JavaScript number is an exact fraction n/d in lowest terms with d > 0
\* (the values of the model are small, so no rounding occurs); d = 0 is
\* null / undefined, the value of a column that was never set.
RECURSIVE GCD(_, _)
GCD(a, b) == IF b = 0 THEN a ELSE GCD(b, a % b)
Abs(x) == IF x < 0 THEN -x ELSE x
Null == [n |-> 0, d |-> 0]
Rat(n, d) ==
  LET g == GCD(Abs(n), Abs(d))
  IN  IF d < 0 THEN [n |-> (-n) \div g, d |-> (-d) \div g]
               ELSE [n |-> n \div g, d |-> d \div g]
Num(k) == [n |-> k, d |-> 1]
IsNull(x) == x.d = 0
Truthy(x) == x.d # 0 /\ x.n # 0                  \* neither null nor 0
OrZero(x) == IF Truthy(x) THEN x ELSE Num(0)     \* x || 0
ToNumber(x) == IF IsNull(x) THEN Num(0) ELSE x   \* null in arithmetic is 0
Plus(a, b)  == Rat(a.n * b.d + b.n * a.d, a.d * b.d)
Minus(a, b) == Rat(a.n * b.d - b.n * a.d, a.d * b.d)
Times(a, b) == Rat(a.n * b.n, a.d * b.d)
Over(a, b)  == Rat(a.n * b.d, a.d * b.n)
Less(a, b)  == a.n * b.d < b.n * a.d
RAbs(a) == [n |-> Abs(a.n), d |-> a.d]

\* ---------------------------------------------------------- limits payloads
\* One entry of the remote's limits document: { Max, Remaining }, an entry
\* without Remaining, or no entry at all.
Absent == [present |-> FALSE, Max |-> Null, Remaining |-> Null]
Entry(max, remaining) ==
  [present |-> TRUE, Max |-> Num(max), Remaining |-> remaining]
LimitsTable ==
  << Entry(100, Num(50)), Entry(100, Num(25)), Entry(0, Num(0)), Absent,
     Entry(100, Num(100)), Entry(100, Num(90)), Entry(100, Null) >>
EntryOf(k) == LimitsTable[((k - 1) % Len(LimitsTable)) + 1]
\* The document behind payload p.
LimitsOf(p) ==
  [DailyApiRequests |-> EntryOf(p), DataStorageMB |-> EntryOf(p + 2),
   FileStorageMB |-> EntryOf(p + 3)]

MetricFields ==
  {"apiRequestsUsed", "apiRequestsMax", "dataStorageUsed", "dataStorageMax",
   "fileStorageUsed", "fileStorageMax", "apiUsagePercentage",
   "dataUsagePercentage", "fileUsagePercentage"}

\* extractKeyMetrics (388-442), one of its three blocks: used, max and the
\* percentage, which is set only when used is defined and max > 0.
ExtractOne(e) ==
  LET used == IF ~e.present \/ IsNull(e.Remaining) THEN Null
              ELSE Minus(e.Max, e.Remaining)
      max  == IF e.present THEN e.Max ELSE Null
  IN  [used |-> used, max |-> max,
       pct |-> IF e.present /\ ~IsNull(used) /\ Less(Num(0), max)
                 THEN Times(Over(used, max), Num(100)) ELSE Null]

extractKeyMetrics(limitsData) ==
  LET a == ExtractOne(limitsData.DailyApiRequests)
      d == ExtractOne(limitsData.DataStorageMB)
      f == ExtractOne(limitsData.FileStorageMB)
  IN  [apiRequestsUsed |-> a.used, apiRequestsMax |-> a.max,
       dataStorageUsed |-> d.used, dataStorageMax |-> d.max,
       fileStorageUsed |-> f.used, fileStorageMax |-> f.max,
       apiUsagePercentage |-> a.pct, dataUsagePercentage |-> d.pct,
       fileUsagePercentage |-> f.pct]

\* The OrgLimitHistory row collectDataForOrganization creates (366-373).
Snapshot(organizationId, orgId, payload, collectedAt, by) ==
  [organizationId |-> organizationId, orgId |-> orgId, limitsData |-> payload,
   collectedAt |-> collectedAt, by |-> by,
   metrics |-> extractKeyMetrics(LimitsOf(payload))]

\* ----------------------------------------------------------- HistoryService
RECURSIVE SortedRows(_)
SortedRows(S) ==
  IF S = {} THEN <<>>
  ELSE LET m == CHOOSE r \in S : \A q \in S : r.id <= q.id
       IN  <<m>> \o SortedRows(S \ {m})

\* lines 329-336: findMany({ where: { isActive: true } })
StepSweepList(t) ==
  LET tk == tasks[t]
      l  == SortedRows({r \in orgs : r.isActive})
      st == [tk EXCEPT !.list = l]
  IN  /\ tk.pc = "S_list"
      /\ SetTask(t, IF l = <<>> THEN Finish(st, "ok", "") ELSE BeginOrg(st, 1))
      /\ UNCHANGED <<orgs, nextId, history, now, remote, tokCtr, sched, configKey>>

\* lines 366-373: prisma.orgLimitHistory.create
HistoryUpsert(h, row) ==
  IF \E i \in 1..Len(h) : h[i].organizationId = row.organizationId
    THEN [i \in 1..Len(h) |->
            IF h[i].organizationId = row.organizationId THEN row ELSE h[i]]
    ELSE Append(h, row)
HistoryCreate(h, row) == Append(h, row)

StepStore(t) ==
  LET tk == tasks[t]
  IN  /\ tk.pc = "S_store"
      /\ history' = HistoryCreate(history,
           Snapshot(tk.id, tk.list[tk.idx].orgId, tk.limits, now, t))
      /\ SetTask(t, [tk EXCEPT !.pc = "S_sync"])
      /\ UNCHANGED <<orgs, nextId, now, remote, tokCtr, sched, configKey>>

\* lines 366-373 when the database rejects the create: the promise rejects,
\* collectDataForOrganization rethrows (382-385), the loop's catch logs.
DbError == "Can't reach database server"
StepStoreRejected(t) ==
  LET tk == tasks[t]
  IN  /\ tk.pc = "S_store"
      /\ SetTask(t, OrgFailed([tk EXCEPT !.err = DbError]))
      /\ UNCHANGED <<orgs, nextId, history, now, remote, tokCtr, sched, configKey>>

\* lines 376-379: update({ where: { id }, data: { lastSync } })
StepSweepSync(t) ==
  LET tk == tasks[t]
      r  == RowById(tk.id)
  IN  /\ tk.pc = "S_sync"
      /\ IF r = NoRow
           THEN /\ SetTask(t, OrgFailed([tk EXCEPT !.err = PrismaNotFound]))
                /\ UNCHANGED orgs
           ELSE /\ orgs' = Replace(r, [r EXCEPT !.lastSync = now])
                /\ SetTask(t, NextOrg(tk))
      /\ UNCHANGED <<nextId, history, now, remote, tokCtr, sched, configKey>>

\* ---------------------------------------------- Aggregator / TrendAnalyzer
\* Time is counted in ticks; TicksPerDay of them make a UTC day.
DateOf(ts) == ts \div TicksPerDay        \* toISOString().split('T')[0]
\* getDay() of a date, and the date of the Sunday at or before it (server
\* clock in UTC); day 0 is a Thursday.
DaysPerWeek == 7
EpochWeekday == 4
WeekStartOf(ts) == DateOf(ts) - ((DateOf(ts) + EpochWeekday) % DaysPerWeek)

RECURSIVE SelectRows(_, _, _)
\* findMany({ where: { organizationId, collectedAt: { gte: startDate } },
\*            orderBy: { collectedAt: 'asc' } }) over rows h
SelectRows(h, organizationId, startDate) ==
  LET S == {i \in 1..Len(h) : /\ h[i].organizationId = organizationId
                              /\ h[i].collectedAt >= startDate}
  IN  IF S = {} THEN <<>>
      ELSE LET m == CHOOSE i \in S :
                      \A j \in S : \/ h[i].collectedAt < h[j].collectedAt
                                   \/ (h[i].collectedAt = h[j].collectedAt /\ i <= j)
           IN  <<h[m]>> \o
               SelectRows([i \in 1..Len(h) |->
                             IF i = m THEN [h[i] EXCEPT !.organizationId = 0]
                                      ELSE h[i]],
                          organizationId, startDate)

RECURSIVE SumField(_, _)
\* averaged[f] += record[f] || 0, over the records of a group
SumField(records, f) ==
  IF records = <<>> THEN Num(0)
  ELSE Plus(OrZero(Head(records).metrics[f]), SumField(Tail(records), f))

\* averageRecords (511-548)
averageRecords(records, dateKey) ==
  [collectedAt |-> dateKey,
   metrics |-> [f \in MetricFields |->
                  Over(SumField(records, f), Num(Len(records)))]]

KeyOf(record, granularity) ==
  IF granularity = "day" THEN DateOf(record.collectedAt)
                         ELSE WeekStartOf(record.collectedAt)

RECURSIVE SortedKeys(_)
SortedKeys(K) ==
  IF K = {} THEN <<>>
  ELSE LET m == CHOOSE k \in K : \A q \in K : k <= q
       IN  <<m>> \o SortedKeys(K \ {m})

\* groupDataByGranularity (473-509): hourly data is returned as it is; for
\* day and week one averaged record per key, sorted by key.
groupDataByGranularity(data, granularity) ==
  IF granularity = "hour" THEN data
  ELSE LET keys == SortedKeys({KeyOf(data[i], granularity) : i \in 1..Len(data)})
       IN  [k \in 1..Len(keys) |->
              averageRecords(
                SelectSeq(data, LAMBDA r : KeyOf(r, granularity) = keys[k]),
                keys[k])]

\* getHistoricalData (444-471)
StartDate(days) == now - days * TicksPerDay
getHistoricalData(organizationId, days, granularity) ==
  groupDataByGranularity(SelectRows(history, organizationId, StartDate(days)),
                         granularity)

calculateGrowthRateFraction(initial, final) ==
  IF ~Truthy(initial) /\ ~Truthy(final) THEN Num(0)
  ELSE IF ~Truthy(initial)
    THEN IF ~IsNull(final) /\ Less(Num(0), final) THEN Num(100) ELSE Num(0)
  ELSE Over(Minus(ToNumber(final), initial), initial)
\* calculateGrowthRate (612-618)
calculateGrowthRate(initial, final) ==
  IF ~Truthy(initial) /\ ~Truthy(final) THEN Num(0)
  ELSE IF ~Truthy(initial)
    THEN IF ~IsNull(final) /\ Less(Num(0), final) THEN Num(100) ELSE Num(0)
  ELSE Times(Over(Minus(ToNumber(final), initial), initial), Num(100))

\* determineTrend (620-623)
determineTrend(growthRate) ==
  IF Less(RAbs(growthRate), Num(5)) THEN "stable"
  ELSE IF Less(Num(0), growthRate) THEN "increasing" ELSE "decreasing"

\* getTrendAnalysis, lines 570-605: the result for a series.
Analyze(historicalData) ==
  IF Len(historicalData) < 2
    THEN [apiTrend |-> "insufficient_data", dataTrend |-> "insufficient_data",
          fileTrend |-> "insufficient_data",
          growthRates |-> [api |-> Num(0), data |-> Num(0), file |-> Num(0)]]
  ELSE LET firstRecord == historicalData[1]
           lastRecord  == historicalData[Len(historicalData)]
           apiGrowth  == calculateGrowthRate(
                           firstRecord.metrics["apiUsagePercentage"],
                           lastRecord.metrics["apiUsagePercentage"])
           dataGrowth == calculateGrowthRate(
                           firstRecord.metrics["dataUsagePercentage"],
                           lastRecord.metrics["dataUsagePercentage"])
           fileGrowth == calculateGrowthRate(
                           firstRecord.metrics["fileUsagePercentage"],
                           lastRecord.metrics["fileUsagePercentage"])
       IN  [apiTrend |-> determineTrend(apiGrowth),
            dataTrend |-> determineTrend(dataGrowth),
            fileTrend |-> determineTrend(fileGrowth),
            growthRates |-> [api |-> apiGrowth, data |-> dataGrowth,
                             file |-> fileGrowth]]

First(a, b) == a
Min(a, b) == IF a < b THEN a ELSE b

\* HistoryController.getHistoricalData (14-60):
\* GET /api/history/organizations/:organizationId/history
GetHistoricalData(t, u, id, days, granularity) ==
  LET tk == [IdleTask EXCEPT !.kind = "history", !.user = u, !.id = id]
      rq == [days |-> days, gran |-> granularity]
  IN  /\ Idle(t)
      /\ SetTask(t,
           IF granularity \notin {"hour", "day", "week"} \/ days < 1 \/ days > 365
             THEN [Finish(tk, "error", "") EXCEPT !.status = 400,
                     !.days = days, !.gran = granularity]
             ELSE [Finish(tk, "ok", "") EXCEPT !.status = 200,
                     !.days = days, !.gran = granularity,
                     !.data = SelectRows(history, id, StartDate(days)),
                     !.points = getHistoricalData(id, days, granularity)])
      /\ UNCHANGED <<orgs, nextId, history, now, remote, tokCtr, sched, configKey>>

\* HistoryController.getTrendAnalysis (62-96):
\* GET /api/history/organizations/:organizationId/trends
GetTrendAnalysis(t, u, id, days) ==
  LET tk == [IdleTask EXCEPT !.kind = "trend", !.user = u, !.id = id,
                             !.days = days]
  IN  /\ Idle(t)
      /\ SetTask(t,
           IF days < 7 \/ days > 365
             THEN [Finish(tk, "error", "") EXCEPT !.status = 400, !.days = days]
             ELSE [tk EXCEPT !.pc = "T_day"])
      /\ UNCHANGED <<orgs, nextId, history, now, remote, tokCtr, sched, configKey>>

\* The response of the trends endpoint for the series the service ended with.
TrendDone(tk, series) ==
  [Finish(tk, "ok", "") EXCEPT !.status = 200, !.days = tk.days,
     !.dayLen = tk.dayLen, !.hourLen = tk.hourLen, !.hourDays = tk.hourDays,
     !.points = series, !.trend = Analyze(series)]

\* line 562: await this.getHistoricalData(organizationId, days, 'day')
StepTrendDay(t) ==
  LET tk  == tasks[t]
      pts == getHistoricalData(tk.id, tk.days, "day")
      got == [tk EXCEPT !.dayLen = Len(pts)]
  IN  /\ tk.pc = "T_day"
      /\ SetTask(t, IF Len(pts) < 2 THEN [got EXCEPT !.pc = "T_hour"]
                                    ELSE TrendDone(got, pts))
      /\ UNCHANGED <<orgs, nextId, history, now, remote, tokCtr, sched, configKey>>

\* line 567: await this.getHistoricalData(organizationId, Math.min(days, 7),
\* 'hour')
StepTrendHour(t) ==
  LET tk  == tasks[t]
      pts == getHistoricalData(tk.id, Min(tk.days, 7), "hour")
  IN  /\ tk.pc = "T_hour"
      /\ SetTask(t, TrendDone([tk EXCEPT !.hourLen = Len(pts),
                                         !.hourDays = Min(tk.days, 7)], pts))
      /\ UNCHANGED <<orgs, nextId, history, now, remote, tokCtr, sched, configKey>>

\* --------------------------------------------------------- SchedulerService
Sweeping(t) == tasks[t].kind = "sweep" /\ tasks[t].pc # "done"

StartSweep(t, src) ==
  SetTask(t, [IdleTask EXCEPT !.kind = "sweep", !.pc = "S_list", !.src = src])

\* start (16-80): registers the hourly job unless already running.
Start(s) ==
  /\ IF sched[s].isRunning
       THEN UNCHANGED sched
       ELSE /\ sched[s].jobs < MaxJobs
            /\ sched' = [sched EXCEPT ![s].isRunning = TRUE,
                                      ![s].jobs = @ + 1]
  /\ UNCHANGED <<orgs, nextId, history, now, remote, tokCtr, tasks, configKey>>

\* stop (90-105): clears the flag; the registered jobs are left in place
\* (comment of lines 99-101).  cleanup() disconnects the database client,
\* which reconnects on its next query.
Stop(s) ==
  /\ IF sched[s].isRunning
       THEN sched' = [sched EXCEPT ![s].isRunning = FALSE]
       ELSE UNCHANGED sched
  /\ UNCHANGED <<orgs, nextId, history, now, remote, tokCtr, tasks, configKey>>

\* The cron callback of line 26: a registered hourly job fires.
CronFire(s, t) ==
  /\ sched[s].jobs > 0
  /\ Idle(t)
  /\ StartSweep(t, "timer")
  /\ UNCHANGED <<orgs, nextId, history, now, remote, tokCtr, sched, configKey>>

\* runImmediateDataCollection (107-116), POST /api/history/collect/trigger
RunImmediateDataCollection(t) ==
  /\ Idle(t)
  /\ StartSweep(t, "manual")
  /\ UNCHANGED <<orgs, nextId, history, now, remote, tokCtr, sched, configKey>>

\* getStatus (118-134) of scheduler instance s.
getStatus(s) == [isRunning |-> sched[s].isRunning]

\* HistoryController.getCollectionStatus (127-142), GET /api/history/collect/
\* status: asks the SchedulerService the controller constructed for itself
\* (constructor, line 11).
GetCollectionStatus(t) ==
  /\ Idle(t)
  /\ SetTask(t, [Finish([IdleTask EXCEPT !.kind = "status"], "ok", "")
                   EXCEPT !.status = 200,
                          !.isRunning = getStatus("controller").isRunning])
  /\ UNCHANGED <<orgs, nextId, history, now, remote, tokCtr, sched, configKey>>

\* ------------------------------------------------------------- environment
Tick ==
  /\ now < MaxNow
  /\ now' = now + 1
  /\ UNCHANGED <<orgs, nextId, history, remote, tokCtr, sched, tasks, configKey>>

Granted(p) == remote[p].access # 0 \/ remote[p].refresh # 0

\* The remote session behind the access secret expires.
RemoteExpire(p) ==
  /\ remote[p].access # 0
  /\ remote' = [remote EXCEPT ![p].access = 0]
  /\ UNCHANGED <<orgs, nextId, history, now, tokCtr, sched, tasks, configKey>>

\* The remote becomes unreachable / reachable again.
RemoteOutage(p) ==
  /\ Granted(p)
  /\ remote' = [remote EXCEPT ![p].up = ~@]
  /\ UNCHANGED <<orgs, nextId, history, now, tokCtr, sched, tasks, configKey>>


\* ----------------------------------------------------------- specifications
NoGrant(p) == [access |-> 0, refresh |-> 0, up |-> TRUE, silent |-> FALSE,
               limits |-> 1, url |-> p[2]]

InitCommon ==
  /\ history = <<>>
  /\ now = 0
  /\ sched = [s \in Scheds |-> [isRunning |-> FALSE, jobs |-> 0]]
  /\ tasks = [t \in TaskIds |-> IdleTask]
  /\ configKey = KeyLength

\* A fresh database: nothing connected yet.
Init ==
  /\ InitCommon
  /\ orgs = {}
  /\ nextId = 0
  /\ remote = [p \in AllPairs |-> NoGrant(p)]
  /\ tokCtr = 0

\* A database in which MaxSeed organizations were connected earlier; each
\* grant's remote side is healthy, has an expired session, has been revoked
\* altogether, is unreachable (connections fail), or is silent (it accepts
\* the request and never answers).
SeedUser(i) == ((i - 1) % MaxUsers) + 1
SeedExt(i)  == MaxExt + i
SeedRow(i) ==
  [id |-> i, userId |-> SeedUser(i), orgId |-> SeedExt(i), name |-> "acme",
   instanceUrl |-> SeedExt(i), environment |-> "production",
   accessToken |-> encrypt(i, 0), refreshToken |-> encrypt(MaxSeed + i, 1),
   isActive |-> TRUE, lastSync |-> 0]
SeedGrant(i, st) ==
  [access |-> IF st \in {"expired", "revoked"} THEN 0 ELSE i,
   refresh |-> IF st = "revoked" THEN 0 ELSE MaxSeed + i,
   up |-> (st # "down"), silent |-> (st = "silent"),
   limits |-> ((i - 1) % MaxPayload) + 1,
   url |-> SeedExt(i)]

Seeded(Statuses) ==
  /\ InitCommon
  /\ orgs = {SeedRow(i) : i \in 1..MaxSeed}
  /\ nextId = MaxSeed
  /\ tokCtr = 0
  /\ \E st \in [1..MaxSeed -> Statuses] :
       remote = [p \in AllPairs |->
                   IF \E i \in 1..MaxSeed : p = <<SeedUser(i), SeedExt(i)>>
                     THEN LET i == CHOOSE j \in 1..MaxSeed :
                                     p = <<SeedUser(j), SeedExt(j)>>
                          IN  SeedGrant(i, st[i])
                     ELSE NoGrant(p)]

InitSeeded == Seeded({"ok", "expired", "revoked", "down"})
InitHealthy == Seeded({"ok"})

Ids == 1..MaxOrgs

\* The steps of the fetch-with-refresh protocol and of the refresh itself.
ProtocolSteps ==
  \E t \in TaskIds :
    \/ StepGetWithTokens(t)
    \/ StepFetch(t)
    \/ StepTouchLastSync(t)

RefreshSteps ==
  \E t \in TaskIds :
    \/ StepRefreshCall(t)
    \/ StepUpdateTokens(t)

Environment ==
  \/ Tick
  \/ \E p \in AllPairs : RemoteExpire(p)
  \/ \E p \in AllPairs : RemoteOutage(p)

SweepSteps ==
  \E t \in TaskIds :
    \/ StepSweepList(t)
    \/ StepStore(t)
    \/ StepSweepSync(t)

SchedulerCalls ==
  \/ Start("server")
  \/ Stop("server")
  \/ \E t \in TaskIds : CronFire("server", t)
  \/ \E t \in TaskIds : RunImmediateDataCollection(t)

NextSweep ==
  \/ SchedulerCalls
  \/ SweepSteps
  \/ ProtocolSteps

SpecSweep == InitSeeded /\ [][NextSweep]_vars


\* The registry on a fresh database: connecting, reading, updating,
\* refreshing and deleting organizations.
Next ==
  \/ \E t \in TaskIds, u \in Users, e \in Exts, name \in Names, env \in Envs,
        withRefresh \in BOOLEAN :
       ConnectOrganization(t, u, e, name, env, withRefresh)
  \/ \E t \in TaskIds : StepCreateFind(t)
  \/ \E t \in TaskIds : StepCreateInsert(t)
  \/ \E t \in TaskIds, u \in Users, id \in Ids : RefreshOrganizationToken(t, u, id)
  \/ \E t \in TaskIds : StepGetWithTokens(t)
  \/ RefreshSteps
  \/ \E t \in TaskIds, u \in Users, id \in Ids : GetOrganization(t, u, id)
  \/ \E u \in Users, id \in Ids, name \in Names \cup {""},
        active \in {"keep", "true", "false"} :
       UpdateOrganization(u, id, name, active)
  \/ \E u \in Users, id \in Ids : DeleteOrganization(u, id)

Spec == Init /\ [][Next]_vars

\* The limits and refresh endpoints on the seeded database, with the remote
\* sessions expiring and the remote going down and up.
SeedIds == 1..MaxSeed
NextFetch ==
  \/ \E t \in TaskIds, u \in Users, id \in SeedIds : GetOrganizationLimits(t, u, id)
  \/ \E t \in TaskIds, u \in Users, id \in SeedIds : RefreshOrganizationToken(t, u, id)
  \/ ProtocolSteps
  \/ RefreshSteps
  \/ Environment

SpecFetch == InitSeeded /\ [][NextFetch]_vars


\* Everything that runs next to a sweep on the seeded database: on-demand
\* sweeps, renaming / deactivating / deleting organizations and manual
\* refreshes.
AuditIds == 1..MaxAudit
NextAudit ==
  \/ \E t \in TaskIds : RunImmediateDataCollection(t)
  \/ SweepSteps
  \/ ProtocolSteps
  \/ \E t \in TaskIds, id \in AuditIds :
       RefreshOrganizationToken(t, SeedUser(id), id)
  \/ RefreshSteps
  \/ \E id \in AuditIds, name \in {"", "globex"}, active \in {"keep", "false"} :
       UpdateOrganization(SeedUser(id), id, name, active)
  \/ \E id \in AuditIds : DeleteOrganization(SeedUser(id), id)

SpecAudit == InitHealthy /\ [][NextAudit]_vars

\* The history and trends endpoints over a stored history: up to MaxSnap
\* snapshots collected earlier for organizations 1 and 2, today, yesterday
\* and more than a week ago.
TrendNow == 10 * TicksPerDay + (TicksPerDay - 1)
Ages == {0, 1, TicksPerDay + 1, 7 * TicksPerDay + 1}
TrendPayloads == 1..MaxTrendPayload
TrendOrgs == {1, 2}
SeedChoices == Ages \X TrendPayloads \X TrendOrgs

InitTrend ==
  /\ sched = [s \in Scheds |-> [isRunning |-> FALSE, jobs |-> 0]]
  /\ tasks = [t \in TaskIds |-> IdleTask]
  /\ configKey = KeyLength
  /\ now = TrendNow
  /\ orgs = {SeedRow(i) : i \in 1..MaxSeed}
  /\ nextId = MaxSeed
  /\ tokCtr = 0
  /\ remote = [p \in AllPairs |->
                 IF \E i \in 1..MaxSeed : p = <<SeedUser(i), SeedExt(i)>>
                   THEN LET i == CHOOSE j \in 1..MaxSeed :
                                   p = <<SeedUser(j), SeedExt(j)>>
                        IN  SeedGrant(i, "ok")
                   ELSE NoGrant(p)]
  /\ \E k \in 0..MaxSnap :
       \E c \in [1..k -> SeedChoices] :
         /\ \A i \in 1..k, j \in 1..k : i < j => c[i][1] >= c[j][1]
         /\ history = [i \in 1..k |->
                         Snapshot(c[i][3], SeedExt(c[i][3]), c[i][2],
                                  TrendNow - c[i][1], 0)]

HistoryDays == {0, 2}
TrendDays == {6, 8}
Granularities == {"hour", "day", "week", "month"}

NextTrend ==
  \/ \E t \in TaskIds, days \in HistoryDays, g \in Granularities :
       GetHistoricalData(t, SeedUser(1), 1, days, g)
  \/ \E t \in TaskIds, days \in TrendDays :
       GetTrendAnalysis(t, SeedUser(1), 1, days)
  \/ \E t \in TaskIds : StepTrendDay(t)
  \/ \E t \in TaskIds : StepTrendHour(t)

SpecTrend == InitTrend /\ [][NextTrend]_vars

\* The vault used directly, under every way the key can be configured: not
\* set, one character short, exact, one character long.
KeyChoices == {0, KeyLength - 1, KeyLength, KeyLength + 1}
VaultTexts == {0, 1, TokMod - 1}
Flips == 1..MaxFlip
InitVault ==
  /\ history = <<>>
  /\ now = 0
  /\ sched = [s \in Scheds |-> [isRunning |-> FALSE, jobs |-> 0]]
  /\ tasks = [t \in TaskIds |-> IdleTask]
  /\ orgs = {}
  /\ nextId = 0
  /\ remote = [p \in AllPairs |-> NoGrant(p)]
  /\ tokCtr = 0
  /\ configKey \in KeyChoices
NextVault ==
  \/ \E t \in TaskIds, text \in VaultTexts : Encrypt(t, text)
  \/ \E t \in TaskIds, how \in {"ct", "tag", "cut", "add"}, d \in Flips :
       Tamper(t, how, d)
  \/ \E t \in TaskIds : Decrypt(t)

SpecVault == InitVault /\ [][NextVault]_vars

\* The scheduler with its status endpoint, on a healthy seeded database.
NextStatus ==
  \/ NextSweep
  \/ \E t \in TaskIds : GetCollectionStatus(t)

SpecStatus == InitHealthy /\ [][NextStatus]_vars

\* The limits and refresh endpoints used by the owners, on a seeded database
\* in which some organizations were connected without a refresh token
\* (createOrganization, lines 92-94: refreshToken null).
SeedRowWithout(i) == [SeedRow(i) EXCEPT !.refreshToken = NoEnv]
InitRetry ==
  /\ InitCommon
  /\ nextId = MaxSeed
  /\ tokCtr = 0
  /\ \E without \in SUBSET SeedIds :
       orgs = {IF i \in without THEN SeedRowWithout(i) ELSE SeedRow(i) :
                 i \in SeedIds}
  /\ \E st \in [SeedIds -> {"ok", "expired", "revoked", "down"}] :
       remote = [p \in AllPairs |->
                   IF \E i \in SeedIds : p = <<SeedUser(i), SeedExt(i)>>
                     THEN LET i == CHOOSE j \in SeedIds :
                                     p = <<SeedUser(j), SeedExt(j)>>
                          IN  SeedGrant(i, st[i])
                     ELSE NoGrant(p)]

NextRetry ==
  \/ \E t \in TaskIds, id \in SeedIds : GetOrganizationLimits(t, SeedUser(id), id)
  \/ \E t \in TaskIds, id \in SeedIds : RefreshOrganizationToken(t, SeedUser(id), id)
  \/ ProtocolSteps
  \/ RefreshSteps

SpecRetry == InitRetry /\ [][NextRetry]_vars

\* On-demand sweeps over a seeded database in which some remotes are
\* silent.  The event loop runs every continuation whose awaited promise has
\* settled: each task's enabled step is eventually taken.
TaskStep(t) ==
  \/ StepSweepList(t)
  \/ StepGetWithTokens(t)
  \/ StepFetch(t)
  \/ StepTouchLastSync(t)
  \/ StepStore(t)
  \/ StepSweepSync(t)

InitStall == Seeded({"ok", "silent"})
NextStall ==
  \/ \E t \in TaskIds : RunImmediateDataCollection(t)
  \/ SweepSteps
  \/ ProtocolSteps

SpecStall ==
  /\ InitStall
  /\ [][NextStall]_vars
  /\ \A t \in TaskIds : WF_vars(TaskStep(t))

\* On-demand sweeps over a seeded database in which some rows were written
\* by a deployment configured with another ENCRYPTION_KEY: their envelopes
\* do not verify under the present key.
OtherKeyByte == 6
encryptUnderOtherKey(text, iv) ==
  LET ct == (text + OtherKeyByte + 3 * iv + 1) % TokMod
  IN  [iv |-> iv, tag |-> (OtherKeyByte + 7 * iv + 2 * ct + 1) % (2 * TokMod),
       ct |-> ct]
SeedRowForeign(i) ==
  [SeedRow(i) EXCEPT !.accessToken = encryptUnderOtherKey(i, 0),
                     !.refreshToken = encryptUnderOtherKey(MaxSeed + i, 1)]
InitSkip ==
  /\ InitCommon
  /\ nextId = MaxSeed
  /\ tokCtr = 0
  /\ \E foreign \in SUBSET SeedIds :
       orgs = {IF i \in foreign THEN SeedRowForeign(i) ELSE SeedRow(i) :
                 i \in SeedIds}
  /\ remote = [p \in AllPairs |->
                 IF \E i \in SeedIds : p = <<SeedUser(i), SeedExt(i)>>
                   THEN LET i == CHOOSE j \in SeedIds :
                                   p = <<SeedUser(j), SeedExt(j)>>
                        IN  SeedGrant(i, "ok")
                   ELSE NoGrant(p)]
NextSkip ==
  \/ \E t \in TaskIds : RunImmediateDataCollection(t)
  \/ SweepSteps
  \/ ProtocolSteps
  \/ Tick

SpecSkip == InitSkip /\ [][NextSkip]_vars

\* On-demand sweeps over a healthy seeded database that may reject a
\* write, while the clock advances.
NextStore ==
  \/ \E t \in TaskIds : RunImmediateDataCollection(t)
  \/ SweepSteps
  \/ ProtocolSteps
  \/ \E t \in TaskIds : StepStoreRejected(t)
  \/ Tick

SpecStore == InitHealthy /\ [][NextStore]_vars

\* The registry together with the limits endpoint and the history endpoint,
\* on a fresh database.
FrameDays == 2
NextFrame ==
  \/ Next
  \/ \E t \in TaskIds, u \in Users, id \in Ids : GetOrganizationLimits(t, u, id)
  \/ ProtocolSteps
  \/ \E t \in TaskIds, u \in Users, id \in Ids :
       GetHistoricalData(t, u, id, FrameDays, "day")

SpecFrame == Init /\ [][NextFrame]_vars

\* The history and trends endpoints asked by every authenticated user, the
\* owner and the others, over the stored history.
TenantTrendDays == 8
NextTenant ==
  \/ \E t \in TaskIds, u \in Users, id \in AuditIds :
       GetHistoricalData(t, u, id, FrameDays, "hour")
  \/ \E t \in TaskIds, u \in Users, id \in AuditIds :
       GetTrendAnalysis(t, u, id, TenantTrendDays)
  \/ \E t \in TaskIds : StepTrendDay(t)
  \/ \E t \in TaskIds : StepTrendHour(t)

SpecTenant == InitTrend /\ [][NextTenant]_vars

\* ================================================================== claims
SweepsRunning == {t \in TaskIds : Sweeping(t)}

\* C1: at every moment at most one collection sweep is executing; a trigger
\* arriving while a sweep runs does not start a second one.
C1_AtMostOneSweep == Cardinality(SweepsRunning) <= 1

\* Snapshots task t stored for organization id.
StoredBy(t, id) ==
  {i \in 1..Len(history) : history[i].by = t /\ history[i].organizationId = id}

GrantOf(id) == remote[<<RowById(id).userId, RowById(id).orgId>>]
\* The remote would accept the stored refresh secret of organization id.
RefreshWouldSucceed(id) ==
  /\ HasId(id) /\ GrantOf(id).up /\ GrantOf(id).refresh # 0
  /\ RowById(id).refreshToken # NoEnv
  /\ decrypt(RowById(id).refreshToken) = GrantOf(id).refresh

SweepLog == {<<t, k>> \in TaskIds \X (1..MaxSeed) :
               tasks[t].kind = "sweep" /\ k <= Len(tasks[t].log)}

\* C2: a first fetch failing with the authorization-expired signal, for an
\* organization with a refresh secret the remote accepts, is followed by
\* exactly one refresh call and exactly one retried fetch, and the snapshot
\* stored carries the retried payload.
C2_OneRefreshOneRetry ==
  \A tk \in SweepLog :
    LET e == tasks[tk[1]].log[tk[2]]
    IN  (e.first = "auth" /\ e.hadRefresh /\ RefreshWouldSucceed(e.id)) =>
          /\ e.nRefresh = 1
          /\ e.nFetch = 2
          /\ e.ok
          /\ \A i \in StoredBy(tk[1], e.id) : history[i].limitsData = e.payload

\* C3: a fetch failing with the authorization-expired signal whose refresh
\* fails too ends with the refresh-failed error, and stores no snapshot.
C3_RefreshFailedRaised ==
  \A tk \in SweepLog :
    LET e == tasks[tk[1]].log[tk[2]]
    IN  (e.first = "auth" /\ e.hadRefresh /\ HasId(e.id)
           /\ ~RefreshWouldSucceed(e.id)) =>
          /\ e.error = RefreshFailed
          /\ StoredBy(tk[1], e.id) = {}

\* The remote answers every call made for this row with the limits payload.
Healthy(row) ==
  LET got == getOrganizationWithTokens(row.id, row.userId)
  IN  got.status = "ok" /\ FetchOutcome(got.view) = "ok"

\* C4: a finished sweep has completed without raising, has attempted every
\* organization of its list, has stored exactly one snapshot for each one
\* whose remote calls succeed and none for one whose remote calls fail.
C4_SweepIsolatesFailures ==
  \A t \in TaskIds :
    (tasks[t].kind = "sweep" /\ tasks[t].pc = "done") =>
      /\ tasks[t].result = "ok"
      /\ ~tasks[t].raised
      /\ Len(tasks[t].log) = Len(tasks[t].list)
      /\ \A k \in 1..Len(tasks[t].list) :
           Cardinality(StoredBy(t, tasks[t].list[k].id)) =
             IF Healthy(tasks[t].list[k]) THEN 1 ELSE 0

\* A finished sweep over three organizations whose second one fails on
\* every call: the first and the third got their snapshot.
C4_Witness ==
  \E t \in TaskIds :
    /\ tasks[t].kind = "sweep" /\ tasks[t].pc = "done"
    /\ Len(tasks[t].list) >= 3
    /\ ~Healthy(tasks[t].list[2])
    /\ Cardinality(StoredBy(t, tasks[t].list[1].id)) = 1
    /\ Cardinality(StoredBy(t, tasks[t].list[3].id)) = 1
    /\ StoredBy(t, tasks[t].list[2].id) = {}

RefreshInFlight(id) ==
  {t \in TaskIds : tasks[t].pc \in {"R_call", "R_persist"} /\ tasks[t].id = id}

\* C5: at most one refresh per organization id is in flight at any time.
C5_SingleFlightRefresh ==
  \A id \in SeedIds : Cardinality(RefreshInFlight(id)) <= 1

\* C6: while the scheduler is stopped no timer-driven sweep starts.
C6_NoTimerSweepWhileStopped ==
  [][\A t \in TaskIds :
       (Idle(t) /\ tasks'[t].kind = "sweep" /\ tasks'[t].src = "timer")
         => sched["server"].isRunning]_vars


\* C7: the table holds at most one row per (userId, orgId) pair, and a
\* createOrganization whose lookup is made while the pair exists inserts no
\* row: it updates the existing one (or finds it deleted meanwhile).
C7_OneRowPerPair ==
  /\ \A r1 \in orgs, r2 \in orgs :
       (r1.id = r2.id \/ (r1.userId = r2.userId /\ r1.orgId = r2.orgId))
         => r1 = r2
  /\ \A t \in TaskIds :
       (tasks[t].kind = "create" /\ tasks[t].pc = "done" /\ tasks[t].sawPair)
         => /\ tasks[t].id = 0
            /\ tasks[t].result = "ok" \/ tasks[t].error = PrismaNotFound

\* A reconnection of a connected pair has returned, and one row is stored.
C7_Witness ==
  \E t \in TaskIds :
    /\ tasks[t].kind = "create" /\ tasks[t].pc = "done" /\ tasks[t].sawPair
    /\ tasks[t].result = "ok"
    /\ Cardinality(orgs) = 1

\* C8: getOrganizationById and getOrganizationWithTokens hand out a row only
\* to the owner it belongs to, and only the row with the id asked for.
C8_OwnerScoped ==
  \A t \in TaskIds :
    /\ (tasks[t].kind = "get" /\ tasks[t].status = 200)
         => tasks[t].row.id = tasks[t].id /\ tasks[t].row.userId = tasks[t].user
    /\ tasks[t].pc \in {"R_call", "R_persist"}
         => tasks[t].org.id = tasks[t].id /\ tasks[t].org.userId = tasks[t].user

\* A GET for an existing row of another owner was answered not-found.
C8_Witness ==
  \E t \in TaskIds :
    /\ tasks[t].kind = "get" /\ tasks[t].status = 404
    /\ \E r \in orgs : r.id = tasks[t].id /\ r.userId # tasks[t].user

\* C9: the body of GET /api/organizations/:orgId holds metadata only: no
\* accessToken and no refreshToken field.
C9_MetadataOnly ==
  \A t \in TaskIds :
    (tasks[t].kind = "get" /\ tasks[t].status = 200)
      => tasks[t].fields \cap {"accessToken", "refreshToken"} = {}

Answered(granularity) ==
  {t \in TaskIds : /\ tasks[t].kind = "history" /\ tasks[t].status = 200
                   /\ tasks[t].gran = granularity}

\* The rows of a query's input collected on UTC date d.
RowsOfDate(data, d) == SelectSeq(data, LAMBDA r : DateOf(r.collectedAt) = d)

RECURSIVE SumDefined(_, _)
\* Sum and number of the values of field f that are defined in records.
SumDefined(records, f) ==
  IF records = <<>> THEN Num(0)
  ELSE Plus(ToNumber(Head(records).metrics[f]), SumDefined(Tail(records), f))
CountDefined(records, f) ==
  Cardinality({i \in 1..Len(records) : ~IsNull(records[i].metrics[f])})

\* C11: day granularity yields exactly one point per UTC date present in the
\* input, in ascending date order, and each numeric field of a point is the
\* arithmetic mean of that field over the snapshots of its date that carry it.
C11_OnePointPerDateWithMean ==
  \A t \in Answered("day") :
    LET data  == tasks[t].data
        pts   == tasks[t].points
        dates == {DateOf(data[i].collectedAt) : i \in 1..Len(data)}
    IN  /\ Len(pts) = Cardinality(dates)
        /\ \A k \in 1..Len(pts) : pts[k].collectedAt \in dates
        /\ \A k \in 1..(Len(pts) - 1) : pts[k].collectedAt < pts[k + 1].collectedAt
        /\ \A k \in 1..Len(pts), f \in MetricFields :
             LET rows == RowsOfDate(data, pts[k].collectedAt)
             IN  CountDefined(rows, f) > 0 =>
                   Times(pts[k].metrics[f], Num(CountDefined(rows, f)))
                     = SumDefined(rows, f)

\* The answered trend requests.
TrendsAnswered ==
  {t \in TaskIds : tasks[t].kind = "trend" /\ tasks[t].status = 200}

\* Stored snapshots of organization id collected within the last days days.
InWindow(id, days) ==
  {i \in 1..Len(history) : /\ history[i].organizationId = id
                           /\ history[i].collectedAt >= now - days * TicksPerDay}
DatesInWindow(id, days) ==
  {DateOf(history[i].collectedAt) : i \in InWindow(id, days)}

Classified(trend) ==
  {trend.apiTrend, trend.dataTrend, trend.fileTrend}
    \subseteq {"increasing", "decreasing", "stable"}
Insufficient(trend) ==
  /\ {trend.apiTrend, trend.dataTrend, trend.fileTrend} = {"insufficient_data"}
  /\ trend.growthRates = [api |-> Num(0), data |-> Num(0), file |-> Num(0)]

\* C12: the analysis uses the day points of the requested window; with
\* fewer than 2 of them it uses the hourly points of the last min(days, 7)
\* days; with fewer than 2 of those it reports insufficient_data and growth
\* rate 0 for every metric, and it classifies only from 2 points or more.
C12_DayThenHourThenInsufficient ==
  \A t \in TrendsAnswered :
    LET tk        == tasks[t]
        dayCount  == Cardinality(DatesInWindow(tk.id, tk.days))
        hourCount == Cardinality(InWindow(tk.id, IF tk.days < 7 THEN tk.days ELSE 7))
    IN  /\ tk.dayLen = dayCount
        /\ dayCount >= 2 => tk.hourLen = -1 /\ Len(tk.points) = dayCount
        /\ dayCount < 2 => tk.hourLen = hourCount /\ Len(tk.points) = hourCount
        /\ Len(tk.points) < 2 => Insufficient(tk.trend)
        /\ Len(tk.points) >= 2 => Classified(tk.trend)

\* A request whose window holds one day with snapshots, all older than a
\* week: the hourly fallback found nothing and the answer is
\* insufficient_data.
C12_Witness ==
  \E t \in TrendsAnswered :
    /\ tasks[t].dayLen = 1 /\ tasks[t].hourLen = 0
    /\ Insufficient(tasks[t].trend)

TrendMetrics ==
  { [field |-> "apiUsagePercentage", key |-> "api"],
    [field |-> "dataUsagePercentage", key |-> "data"],
    [field |-> "fileUsagePercentage", key |-> "file"] }
TrendOf(trend, key) ==
  IF key = "api" THEN trend.apiTrend
  ELSE IF key = "data" THEN trend.dataTrend ELSE trend.fileTrend

\* C13: from 2 points on, a metric whose first and last values are numbers
\* has growth rate (last - first) / first * 100, 0 when both are 0 and 100
\* when first is 0 and last is positive; it is stable when |rate| < 5,
\* otherwise increasing when the rate is positive and decreasing when
\* negative.
C13_GrowthRateAndTrend ==
  \A t \in TrendsAnswered : \A m \in TrendMetrics :
    LET pts   == tasks[t].points
        first == pts[1].metrics[m.field]
        last  == pts[Len(pts)].metrics[m.field]
        rate  == tasks[t].trend.growthRates[m.key]
        class == TrendOf(tasks[t].trend, m.key)
    IN  (Len(pts) >= 2 /\ ~IsNull(first) /\ ~IsNull(last)) =>
          /\ (first.n = 0 /\ last.n = 0) => rate = Num(0)
          /\ (first.n = 0 /\ last.n > 0) => rate = Num(100)
          /\ first.n # 0 =>
               rate.n * first.n * last.d
                 = 100 * (last.n * first.d - first.n * last.d) * rate.d
          /\ class = IF Abs(rate.n) < 5 * rate.d THEN "stable"
                     ELSE IF rate.n > 0 THEN "increasing" ELSE "decreasing"

\* A series going from 50 to 75: increasing, growth rate 50.
C13_Witness ==
  \E t \in TrendsAnswered :
    LET pts == tasks[t].points
    IN  /\ Len(pts) >= 2
        /\ pts[1].metrics["apiUsagePercentage"] = Num(50)
        /\ pts[Len(pts)].metrics["apiUsagePercentage"] = Num(75)
        /\ tasks[t].trend.apiTrend = "increasing"
        /\ tasks[t].trend.growthRates.api = Num(50)

\* The direct uses of the vault that have returned or thrown.
VaultDone == {t \in TaskIds : tasks[t].kind = "vault" /\ tasks[t].pc = "done"}

Altered(tk) ==
  \/ DOMAIN tk.env # EnvelopeParts
  \/ tk.env.ct # tk.env0.ct
  \/ tk.env.tag # tk.env0.tag

\* C15: decrypt of an envelope that has not exactly three parts, or whose
\* ciphertext or tag was altered, raises the decryption error and returns no
\* plaintext.
C15_FailsClosed ==
  \A t \in VaultDone :
    (tasks[t].env0 # NoEnv /\ Altered(tasks[t])) =>
      /\ tasks[t].result = "error"
      /\ tasks[t].error = DecryptError
      /\ tasks[t].plain = DecryptFailed

\* An envelope with an altered ciphertext was rejected under a valid key.
C15_Witness ==
  \E t \in VaultDone :
    /\ tasks[t].env0 # NoEnv
    /\ DOMAIN tasks[t].env = EnvelopeParts
    /\ tasks[t].env.ct # tasks[t].env0.ct
    /\ configKey = KeyLength
    /\ tasks[t].error = DecryptError

\* C16: encrypt and decrypt are performed only with the configured key,
\* which is present and exactly as long as the algorithm requires: never
\* with a substituted or truncated one.
C16_KeyValidated ==
  \A t \in TaskIds :
    (tasks[t].kind = "vault" /\ tasks[t].env0 # NoEnv) =>
      /\ ENCRYPTION_KEY.from = "env"
      /\ ENCRYPTION_KEY.len = KeyLength

\* C17: the status endpoint answers isRunning = true exactly when the
\* scheduler the process started at init is started and not stopped.
C17_StatusOfStartedScheduler ==
  [][\A t \in TaskIds :
       (Idle(t) /\ tasks'[t].kind = "status")
         => tasks'[t].isRunning = sched["server"].isRunning]_vars

\* The last invocation of getOrgLimitsWithRetry task record tk finished.
LastRun(tk) == tk.log[Len(tk.log)]

\* C18: when the organization has no refresh secret and the first fetch
\* fails, that very step ends the invocation with the fetch failure: one
\* fetch call, no refresh call, stored and remote credentials unchanged.
C18_NoRefreshSecretFailsAtOnce ==
  [][\A t \in TaskIds :
       (/\ tasks[t].pc = "L_fetch1" /\ ~tasks[t].hadRefresh
        /\ FetchOutcome(tasks[t].org) # "ok"
        /\ tasks'[t] # tasks[t])
         => /\ Len(tasks'[t].log) = Len(tasks[t].log) + 1
            /\ LastRun(tasks'[t]).error = FetchFailed
            /\ ~LastRun(tasks'[t]).ok
            /\ LastRun(tasks'[t]).nFetch = 1
            /\ LastRun(tasks'[t]).nRefresh = 0
            /\ orgs' = orgs
            /\ remote' = remote]_vars

\* A limits request for an organization stored without refresh token has
\* ended with the fetch failure after its single fetch.
C18_Witness ==
  \E t \in TaskIds :
    /\ tasks[t].kind = "limits" /\ tasks[t].pc = "done"
    /\ Len(tasks[t].log) = 1
    /\ ~LastRun(tasks[t]).hadRefresh
    /\ LastRun(tasks[t]).first \in {"auth", "net"}
    /\ tasks[t].error = FetchFailed
    /\ RowById(tasks[t].id).refreshToken = NoEnv

\* Position of a program counter in the order the protocol's code runs:
\* every step moves to a smaller one.
Rank(pc) ==
  CASE pc = "L_get"     -> 9
    [] pc = "L_fetch1"  -> 8
    [] pc = "L_sync1"   -> 7
    [] pc = "R_get"     -> 6
    [] pc = "R_call"    -> 5
    [] pc = "R_persist" -> 4
    [] pc = "L_reget"   -> 3
    [] pc = "L_fetch2"  -> 2
    [] pc = "L_sync2"   -> 1
    [] OTHER            -> 0

\* C19: an invocation of the fetch-with-refresh protocol makes at most two
\* fetch calls and at most one refresh call, and each of its steps either
\* ends it or moves it forward in the code: it never goes back, so it ends.
C19_ProtocolTerminates ==
  /\ [](\A t \in TaskIds :
          /\ tasks[t].nFetch <= 2 /\ tasks[t].nRefresh <= 1
          /\ \A k \in 1..Len(tasks[t].log) :
               tasks[t].log[k].nFetch <= 2 /\ tasks[t].log[k].nRefresh <= 1)
  /\ [][\A t \in TaskIds :
          (Rank(tasks[t].pc) > 0 /\ tasks'[t] # tasks[t])
            => \/ Len(tasks'[t].log) > Len(tasks[t].log)
               \/ Rank(tasks'[t].pc) < Rank(tasks[t].pc)]_vars

\* A limits request against a revoked grant (every call fails) has ended in
\* an error.
C19_Witness ==
  \E t \in TaskIds :
    /\ tasks[t].kind = "limits" /\ tasks[t].pc = "done"
    /\ tasks[t].result = "error"
    /\ Len(tasks[t].log) = 1
    /\ LastRun(tasks[t]).first = "auth"
    /\ HasId(tasks[t].id)
    /\ GrantOf(tasks[t].id).access = 0 /\ GrantOf(tasks[t].id).refresh = 0

\* C20: every sweep that has started completes, whatever the remotes do:
\* also when the remote of one organization never answers.
C20_SweepCompletes ==
  \A t \in TaskIds :
    (tasks[t].kind = "sweep") ~> (tasks[t].kind = "sweep" /\ tasks[t].pc = "done")

\* C21: in the refresh path the refresh call and the persisting of the new
\* pair come first and the retried fetch after them, and the retried fetch
\* carries another access secret than the one that just failed.
C21_RetryWithNewSecret ==
  \A tk \in SweepLog :
    LET e == tasks[tk[1]].log[tk[2]]
    IN  (e.first = "auth" /\ e.hadRefresh /\ RefreshWouldSucceed(e.id)) =>
          /\ e.rfOut = "ok"
          /\ Len(e.sent) = 2
          /\ e.sent[2] # e.sent[1]

\* C22: a first fetch that fails for another reason than authorization (the
\* remote is unreachable) is the invocation's only remote call: no refresh
\* call, no second fetch, no snapshot from this sweep; the sweep does not
\* raise, and it attempts each organization of its list once, in order.
C22_NoRetryWithinSweep ==
  \A t \in TaskIds :
    tasks[t].kind = "sweep" =>
      /\ Len(tasks[t].log) <= Len(tasks[t].list)
      /\ \A k \in 1..Len(tasks[t].log) :
           LET e == tasks[t].log[k]
           IN  /\ e.id = tasks[t].list[k].id
               /\ e.first = "net" =>
                    /\ e.nFetch = 1 /\ e.nRefresh = 0
                    /\ ~e.ok /\ e.error = FetchFailed
                    /\ StoredBy(t, e.id) = {}
                    /\ ~tasks[t].raised

\* A finished sweep whose first organization was unreachable and whose
\* second one got its snapshot.
C22_Witness ==
  \E t \in TaskIds :
    /\ tasks[t].kind = "sweep" /\ tasks[t].pc = "done"
    /\ Len(tasks[t].log) >= 2
    /\ tasks[t].log[1].first = "net" /\ tasks[t].log[1].error = FetchFailed
    /\ tasks[t].log[2].ok
    /\ Cardinality(StoredBy(t, tasks[t].log[2].id)) = 1

\* C23: an organization whose stored envelope does not decrypt is skipped
\* by the sweep: the decryption error ends its turn without a remote call,
\* no snapshot is stored for it, its row stays as it was, the sweep does not
\* raise and the organizations after it get their turn.
C23_UndecryptableSkipped ==
  \A t \in TaskIds :
    tasks[t].kind = "sweep" =>
      /\ tasks[t].pc = "done" => Len(tasks[t].log) = Len(tasks[t].list)
      /\ ~tasks[t].raised
      /\ \A k \in 1..Len(tasks[t].log) :
           LET e   == tasks[t].log[k]
               row == tasks[t].list[k]
           IN  decrypt(row.accessToken) = DecryptFailed =>
                 /\ e.id = row.id
                 /\ ~e.ok /\ e.error = DecryptError
                 /\ e.nFetch = 0 /\ e.nRefresh = 0
                 /\ StoredBy(t, row.id) = {}
                 /\ RowById(row.id) = row

\* A finished sweep, after the clock has advanced, whose first organization
\* did not decrypt and whose second one got its snapshot.
C23_Witness ==
  \E t \in TaskIds :
    /\ tasks[t].kind = "sweep" /\ tasks[t].pc = "done"
    /\ now > 0
    /\ Len(tasks[t].log) >= 2
    /\ decrypt(tasks[t].list[1].accessToken) = DecryptFailed
    /\ tasks[t].log[1].error = DecryptError
    /\ tasks[t].log[2].ok
    /\ Cardinality(StoredBy(t, tasks[t].log[2].id)) = 1
    /\ RowById(tasks[t].log[2].id).lastSync > 0

\* C24: when createOrganization finds the pair connected already, the
\* existing row afterwards holds the supplied credentials and the supplied
\* name, environment and instance URL.
C24_ReconnectOverwritesAll ==
  [][\A t \in TaskIds :
       (/\ tasks[t].pc = "C_update"
        /\ tasks'[t].pc = "done" /\ tasks'[t].result = "ok")
         => \E r \in orgs' :
              /\ r.id = tasks[t].existing
              /\ decrypt(r.accessToken) = tasks[t].in.accessToken
              /\ tasks[t].in.refreshToken # 0
                   => decrypt(r.refreshToken) = tasks[t].in.refreshToken
              /\ r.instanceUrl = tasks[t].in.instanceUrl
              /\ r.name = tasks[t].in.name
              /\ r.environment = tasks[t].in.environment]_vars

\* C25: in every day or week bucket each field of the point is the mean of
\* that field over the snapshots of the bucket in which it is defined;
\* snapshots lacking the field do not count as zero.
C25_MissingExcludedFromMean ==
  \A t \in Answered("day") \cup Answered("week") :
    \A k \in 1..Len(tasks[t].points), f \in MetricFields :
      LET pt     == tasks[t].points[k]
          bucket == SelectSeq(tasks[t].data,
                      LAMBDA r : KeyOf(r, tasks[t].gran) = pt.collectedAt)
      IN  CountDefined(bucket, f) > 0 =>
            Times(pt.metrics[f], Num(CountDefined(bucket, f)))
              = SumDefined(bucket, f)

\* A collection of organization id is between its fetch and the end of its
\* turn.
Collecting(id) ==
  {t \in TaskIds : /\ tasks[t].kind = "sweep" /\ tasks[t].id = id
                   /\ tasks[t].pc \in {"S_store", "S_sync"}}

\* C26: lastSync records the last successful sync: a row whose lastSync has
\* moved from its stored value has a snapshot stored, or a collection of it
\* is still under way; collections that failed have not moved it.
C26_LastSyncOnlyOnSuccess ==
  \A r \in orgs :
    r.lastSync # SeedRow(r.id).lastSync =>
      \/ \E i \in 1..Len(history) : history[i].organizationId = r.id
      \/ Collecting(r.id) # {}

\* The stored credentials of a row.
Credentials(r) == <<r.accessToken, r.refreshToken, r.instanceUrl>>

\* C27: the stored credentials of an organization change only in the step
\* that persists a refresh or a reconnection of that organization; every
\* other step (fetches, reads, updateOrganization, history queries) leaves
\* them as they are.
C27_CredentialsFrame ==
  [][\A r \in orgs, q \in orgs' :
       (r.id = q.id /\ Credentials(q) # Credentials(r)) =>
         \E t \in TaskIds :
           /\ tasks'[t] # tasks[t]
           /\ \/ tasks[t].pc = "R_persist" /\ tasks[t].id = r.id
              \/ tasks[t].pc = "C_update" /\ tasks[t].existing = r.id]_vars

\* An organization was deactivated by updateOrganization and fetched by the
\* limits endpoint, and its stored access secret is still the remote's.
C27_Witness ==
  \E r \in orgs, t \in TaskIds :
    /\ ~r.isActive
    /\ tasks[t].kind = "limits" /\ tasks[t].pc = "done" /\ tasks[t].result = "ok"
    /\ tasks[t].id = r.id
    /\ decrypt(r.accessToken) = remote[<<r.userId, r.orgId>>].access

\* C28: whatever start() and stop() calls were made, a scheduler has at
\* most one hourly collection job registered, so that one tick of the clock
\* launches at most one timer-driven sweep.
C28_AtMostOneJob == \A s \in Scheds : sched[s].jobs <= 1

\* C29: a successful refresh does not lose the ability to refresh again:
\* the step that persists it leaves the row with a refresh secret, and that
\* secret is the one the remote accepts (the newly issued one, or the
\* previous one when none was issued), once no other refresh of the
\* organization is under way.
C29_RefreshKeepsRefreshSecret ==
  [][\A t \in TaskIds :
       (/\ tasks[t].pc = "R_persist" /\ tasks'[t].rfOut = "ok"
        /\ RefreshInFlight(tasks[t].id) = {t}) =>
         \E q \in orgs' :
           /\ q.id = tasks[t].id
           /\ q.refreshToken # NoEnv
           /\ decrypt(q.refreshToken) = remote[<<q.userId, q.orgId>>].refresh]_vars

\* C30: a history or trends request for an organization that belongs to
\* another user than the one asking is answered without any data derived
\* from that organization's snapshots.
C30_HistoryOwnerOnly ==
  \A t \in TaskIds :
    (/\ tasks[t].kind \in {"history", "trend"} /\ tasks[t].pc = "done"
     /\ HasId(tasks[t].id)
     /\ RowById(tasks[t].id).userId # tasks[t].user)
      => /\ tasks[t].points = <<>>
         /\ tasks[t].data = <<>>

====
